---------------------------- MODULE Spec2Model ----------------------------
(***************************************************************************)
(* Kanban board server: the relational store declared in shared/schema.ts, *)
(* the storage methods of server/db-storage.ts (cascading deletes, board   *)
(* listings) and the route handlers of routes.ts that call them.           *)
(*                                                                         *)
(* Every `await db...` statement of a cascading delete is one step, so a   *)
(* request can be interleaved with other requests between two statements.  *)
(* The store enforces the foreign keys and primary keys of schema.ts the   *)
(* way PostgreSQL does (ON DELETE NO ACTION): a statement that would break *)
(* one raises an error and changes nothing.                                *)
(***************************************************************************)
EXTENDS Integers, Sequences, FiniteSets, TLC

VARIABLES
    db,        \* the store: one set of rows per table
    nextId,    \* the serial sequence of every table with a serial id
    inserts,   \* rows inserted so far (bounds the run)
    reqs,      \* the cascading DELETE requests in flight, by slot
    resp       \* the response of the last read request

vars == <<db, nextId, inserts, reqs, resp>>

(***************************************************************************)
(* Bounds of the model.                                                    *)
(***************************************************************************)
\* rows inserted in one run of Spec (one request in flight at a time)
MaxInserts == 6
\* rows inserted in one run of SpecAccess (reads and DELETEs by every caller)
MaxAccessInserts == 4
\* rows inserted in one run of SpecMembers (board members by every caller)
MaxMemberInserts == 3
\* rows inserted in one run of SpecUsers (user routes by every caller)
MaxUserInserts == 2
\* rows inserted in one run of SpecCardList (deleteCard with deleteList)
MaxCardListInserts == 6
\* rows inserted in one run of SpecTwoBoards (two deleteBoard calls)
MaxTwoBoardsInserts == 6
\* rows inserted in one run of SpecConc (requests interleaved)
MaxConcInserts == 5
\* inserts of a run of SpecOrder
MaxOrderInserts == 5
\* lists, and cards, a run of SpecOrder inserts
MaxOrderedRows == 3
\* the largest value of an integer column (2147483647 in the store)
MaxOrder == 2
\* inserts of a run of SpecReads
MaxReadInserts == 4
\* inserts of a run of SpecSeeder (the seeder's own insert not counted)
MaxSeederInserts == 4
\* rows a run inserts into each of boards, lists and cards
MaxParentRows == 2
\* rows a run inserts into each of the other tables
MaxChildRows == 1

(***************************************************************************)
(* Schema (shared/schema.ts).                                              *)
(***************************************************************************)
\* a nullable reference that is not set; also the anonymous caller
NULL == 0

Tables ==
    {"users", "boards", "lists", "cards", "labels", "cardLabels", "comments",
     "cardMembers", "checklists", "checklistItems", "boardMembers"}

\* tables whose primary key is a serial id
SerialTables == Tables \ {"cardMembers", "boardMembers"}

\* <<child table, column, parent table>>: column references parent.id
ForeignKeys ==
    { <<"boards", "userId", "users">>,
      <<"lists", "boardId", "boards">>,
      <<"cards", "listId", "lists">>,
      <<"labels", "boardId", "boards">>,
      <<"cardLabels", "cardId", "cards">>,
      <<"cardLabels", "labelId", "labels">>,
      <<"comments", "cardId", "cards">>,
      <<"comments", "userId", "users">>,
      <<"cardMembers", "cardId", "cards">>,
      <<"cardMembers", "userId", "users">>,
      <<"checklists", "cardId", "cards">>,
      <<"checklistItems", "checklistId", "checklists">>,
      <<"boardMembers", "boardId", "boards">>,
      <<"boardMembers", "userId", "users">> }

\* columns that may be NULL
Nullable == { <<"boards", "userId">>, <<"comments", "userId">> }

\* composite primary keys
PrimaryKey ==
    [t \in {"cardMembers", "boardMembers"} |->
        IF t = "cardMembers" THEN {"cardId", "userId"} ELSE {"boardId", "userId"}]

\* the accounts of the run: one administrator and two ordinary users
SeedUsers ==
    { [id |-> 1, role |-> "admin"],
      [id |-> 2, role |-> "user"],
      [id |-> 3, role |-> "user"] }

UserIds == {u.id : u \in SeedUsers}

\* who makes a request: a logged-in user, or nobody (req.user undefined)
Actors == UserIds \cup {NULL}

BoardRoles == {"owner", "editor", "viewer"}

(***************************************************************************)
(* The store: statements and the constraints they are checked against.     *)
(***************************************************************************)
Ids(rows) == {r.id : r \in rows}

\* SELECT * FROM t WHERE col = val
SelectWhere(d, t, col, val) == {r \in d[t] : r[col] = val}

\* some row of another table still references one of `rows` of table t
Referenced(d, t, rows) ==
    \E fk \in ForeignKeys :
        /\ fk[3] = t
        /\ \E c \in d[fk[1]] : \E r \in rows : c[fk[2]] = r.id

\* a store that raises when the WHERE clause of a DELETE matches no row
DeleteWhereStrict(d, t, col, val) ==
    LET rows == SelectWhere(d, t, col, val) IN
    IF rows = {} \/ \E fk \in ForeignKeys :
                      /\ fk[3] = t
                      /\ \E c \in d[fk[1]] : \E r \in rows : c[fk[2]] = r.id
    THEN [ok |-> FALSE, db |-> d, deleted |-> {}]
    ELSE [ok |-> TRUE, db |-> [d EXCEPT ![t] = @ \ rows], deleted |-> rows]

\* a store that deletes rows without looking at what references them
DeleteWhereUnchecked(d, t, col, val) ==
    LET rows == SelectWhere(d, t, col, val) IN
    [ok |-> TRUE, db |-> [d EXCEPT ![t] = @ \ rows], deleted |-> rows]

\* DELETE FROM t WHERE col = val: the rows go, unless one is referenced,
\* and then the statement raises and nothing is deleted
DeleteWhere(d, t, col, val) ==
    LET rows == SelectWhere(d, t, col, val) IN
    IF Referenced(d, t, rows)
    THEN [ok |-> FALSE, db |-> d, deleted |-> {}]
    ELSE [ok |-> TRUE, db |-> [d EXCEPT ![t] = @ \ rows], deleted |-> rows]

\* the row satisfies every foreign key and primary key of table t
InsertAllowed(d, t, row) ==
    /\ \A fk \in ForeignKeys :
          fk[1] = t =>
             \/ (<<t, fk[2]>> \in Nullable /\ row[fk[2]] = NULL)
             \/ \E p \in d[fk[3]] : p.id = row[fk[2]]
    /\ t \in DOMAIN PrimaryKey =>
          ~ \E r \in d[t] : \A c \in PrimaryKey[t] : r[c] = row[c]

EmptyDb == [t \in Tables |-> IF t = "users" THEN SeedUsers ELSE {}]


(***************************************************************************)
(* Cascading deletes (server/db-storage.ts).  A storage method is the      *)
(* sequence of store statements it still has to issue; a SELECT whose rows *)
(* drive a for loop is replaced, when it runs, by the loop's statements    *)
(* for the rows it returned.                                               *)
(***************************************************************************)
Select(t, col, val) == [op |-> "select", table |-> t, col |-> col, val |-> val]
Delete(t, col, val) == [op |-> "delete", table |-> t, col |-> col, val |-> val]
\* db.delete(...).returning(): the statement whose row count is the result
DeleteReturning(t, col, val) ==
    [op |-> "returning", table |-> t, col |-> col, val |-> val]

\* the dependent rows of one card, in the order the code deletes them
CardDependents(cardId) ==
    << Delete("cardLabels", "cardId", cardId),
       Delete("cardMembers", "cardId", cardId),
       Delete("comments", "cardId", cardId),
       Select("checklists", "cardId", cardId),
       Delete("checklists", "cardId", cardId) >>

\* deleteCard without its step 3: the comments are left in place
deleteCardKeepingComments(id) ==
    << Delete("cardLabels", "cardId", id),
       Delete("cardMembers", "cardId", id),
       Select("checklists", "cardId", id),
       Delete("checklists", "cardId", id),
       DeleteReturning("cards", "id", id) >>

\* deleteCard whose last statement matches the cards of list `id`
deleteCardByListId(id) ==
    CardDependents(id) \o << DeleteReturning("cards", "listId", id) >>

deleteCard(id) ==
    CardDependents(id) \o << DeleteReturning("cards", "id", id) >>

\* deleteList without its step 3: the cards are left in place
deleteListKeepingCards(id) ==
    << Select("cards", "listId", id),
       DeleteReturning("lists", "id", id) >>

\* deleteList whose last statement matches every list of board `id`
deleteListAndSiblings(id) ==
    << Select("cards", "listId", id),
       Delete("cards", "listId", id),
       DeleteReturning("lists", "boardId", id) >>

deleteList(id) ==
    << Select("cards", "listId", id),
       Delete("cards", "listId", id),
       DeleteReturning("lists", "id", id) >>

\* deleteBoard whose labels statement matches the label with id `id`
deleteBoardLabelsById(id) ==
    << Select("lists", "boardId", id),
       Delete("lists", "boardId", id),
       Delete("labels", "id", id),
       Delete("boardMembers", "boardId", id),
       DeleteReturning("boards", "id", id) >>

deleteBoard(id) ==
    << Select("lists", "boardId", id),
       Delete("lists", "boardId", id),
       Delete("labels", "boardId", id),
       Delete("boardMembers", "boardId", id),
       DeleteReturning("boards", "id", id) >>

\* deleteChecklist without its first statement: the items are left in place
deleteChecklistRowOnly(id) ==
    << DeleteReturning("checklists", "id", id) >>

deleteChecklist(id) ==
    << Delete("checklistItems", "checklistId", id),
       DeleteReturning("checklists", "id", id) >>

\* const row = await this.getX(id); if (!row) return false;
Find(t, col, val) == [op |-> "find", table |-> t, col |-> col, val |-> val]

deleteUser(id) ==
    << Find("users", "id", id),
       Delete("boardMembers", "userId", id),
       Delete("cardMembers", "userId", id),
       Delete("comments", "userId", id),
       DeleteReturning("users", "id", id) >>

\* the statements of one iteration of the for loop over the rows of table t
LoopBody(t, id) ==
    CASE t = "lists" ->
            << Select("cards", "listId", id), Delete("cards", "listId", id) >>
      [] t = "cards" -> CardDependents(id)
      [] t = "checklists" ->
            << Delete("checklistItems", "checklistId", id) >>

Min(S) == CHOOSE x \in S : \A y \in S : x <= y

\* the loop over the selected rows, unrolled (rows in id order)
RECURSIVE Unroll(_, _)
Unroll(t, ids) ==
    IF ids = {} THEN << >>
    ELSE LET i == Min(ids) IN LoopBody(t, i) \o Unroll(t, ids \ {i})

StorageMethod(kind, id) ==
    CASE kind = "board" -> deleteBoard(id)
      [] kind = "list" -> deleteList(id)
      [] kind = "card" -> deleteCard(id)
      [] kind = "checklist" -> deleteChecklist(id)
      [] kind = "user" -> deleteUser(id)

KindTable(kind) ==
    CASE kind = "board" -> "boards"
      [] kind = "list" -> "lists"
      [] kind = "card" -> "cards"
      [] kind = "checklist" -> "checklists"
      [] kind = "user" -> "users"

Kinds == {"board", "list", "card", "checklist"}

\* app.delete(...): `success` false is answered 404, a thrown error 500
DeleteResponse(outcome) ==
    CASE outcome = "true" -> 204
      [] outcome = "false" -> 404
      [] outcome = "throw" -> 500

\* what the storage method hands to the route when a statement raises:
\* its catch block logs the error and returns false
CaughtOutcome == "false"

(***************************************************************************)
(* Requests in flight.                                                     *)
(***************************************************************************)
Slots == {1, 2}

IdleReq ==
    [st |-> "idle", kind |-> "none", id |-> NULL, actor |-> NULL,
     todo |-> << >>, result |-> FALSE, status |-> NULL,
     raised |-> FALSE, fault |-> FALSE, pre |-> EmptyDb, removed |-> {},
     after |-> {}]

\* no read request has been answered since the store last changed
NoResp ==
    [route |-> "none", actor |-> NULL, id |-> NULL, userId |-> NULL,
     status |-> NULL, body |-> << >>]

Idle(s) == reqs[s].st = "idle"
Running(s) == reqs[s].st = "run"
Done(s) == reqs[s].st = "done"

NoneInFlight == \A s \in Slots : Idle(s)

Init ==
    /\ db = EmptyDb
    /\ nextId = [t \in SerialTables |-> IF t = "users" THEN 4 ELSE 1]
    /\ inserts = 0
    /\ reqs = [s \in Slots |-> IdleReq]
    /\ resp = NoResp


(***************************************************************************)
(* Requests that insert or update rows (routes.ts).  Each is one handler;  *)
(* a request the handler or the store rejects changes nothing.  `run`      *)
(* names what a run draws its requests from: the insert budget, whether a  *)
(* request may be handled while a cascading delete is between two of its   *)
(* statements, and the users and roles the request bodies name.            *)
(***************************************************************************)
Cap(parents, children) ==
    [t \in Tables |-> IF t \in {"boards", "lists", "cards"}
                      THEN parents ELSE children]

\* one request at a time, over every table
SeqRun ==
    [max |-> MaxInserts, conc |-> FALSE, inflight |-> 1,
     cap |-> Cap(MaxParentRows, MaxChildRows),
     creators |-> {2}, invitees |-> {3}, roles |-> {"editor"},
     authors |-> {2}, callers |-> {NULL}, kinds |-> Kinds]

\* one request at a time, by every caller, over the tables that decide who
\* may read or change a board and the lists and cards beneath it
AccessRun ==
    [max |-> MaxAccessInserts, conc |-> FALSE, inflight |-> 1,
     cap |-> [Cap(MaxParentRows, MaxChildRows) EXCEPT
                 !["lists"] = MaxChildRows, !["cards"] = MaxChildRows],
     creators |-> {2, 3}, invitees |-> {2, 3}, roles |-> {"editor"},
     authors |-> {2}, callers |-> Actors, kinds |-> Kinds]

\* requests are handled while a cascading delete is between two of its
\* statements
ConcRun ==
    [max |-> MaxConcInserts, conc |-> TRUE, inflight |-> 1,
     cap |-> [Cap(MaxChildRows, MaxChildRows) EXCEPT
                 !["lists"] = MaxParentRows],
     creators |-> {2}, invitees |-> {3}, roles |-> {"editor"},
     authors |-> {2}, callers |-> {NULL}, kinds |-> Kinds]

\* one request at a time, by every caller, over boards and their members;
\* the requests name any role, a role of the schema's comment or not
MembersRun ==
    [max |-> MaxMemberInserts, conc |-> FALSE, inflight |-> 1,
     cap |-> [Cap(MaxParentRows, MaxChildRows) EXCEPT
                 !["boardMembers"] = MaxParentRows],
     creators |-> {2}, invitees |-> {2, 3}, roles |-> {"editor", "superuser"},
     authors |-> {2}, callers |-> Actors, kinds |-> Kinds]

\* one request at a time, by every caller, over users and the rows that
\* reference them
UsersRun ==
    [max |-> MaxUserInserts, conc |-> FALSE, inflight |-> 1,
     cap |-> Cap(MaxChildRows, MaxChildRows),
     creators |-> {1, 2}, invitees |-> {1, 3}, roles |-> {"editor"},
     authors |-> {2}, callers |-> Actors, kinds |-> {"user"}]

\* two cascading deletes of lists and cards at a time, and no other
\* request while one runs
CardListRun ==
    [max |-> MaxCardListInserts, conc |-> FALSE, inflight |-> 2,
     cap |-> Cap(MaxChildRows, MaxChildRows),
     creators |-> {2}, invitees |-> {3}, roles |-> {"editor"},
     authors |-> {2}, callers |-> {NULL}, kinds |-> {"list", "card"}]

\* two cascading deletes of boards at a time, and no other request while
\* one runs
TwoBoardsRun ==
    [max |-> MaxTwoBoardsInserts, conc |-> FALSE, inflight |-> 2,
     cap |-> [Cap(MaxChildRows, MaxChildRows) EXCEPT
                 !["boards"] = MaxParentRows],
     creators |-> {2}, invitees |-> {3}, roles |-> {"editor"},
     authors |-> {2}, callers |-> {NULL}, kinds |-> {"board"}]

Admit(run) == run.conc \/ NoneInFlight

\* role checks of the routes compare req.user.role.toLowerCase()
ToLower(role) ==
    CASE role \in {"admin", "Admin", "ADMIN"} -> "admin"
      [] OTHER -> role

IsAdmin(d, actor) ==
    \E u \in d.users : u.id = actor /\ ToLower(u.role) = "admin"

\* the run still has room for a row of table t
Room(run, t) ==
    /\ inserts < run.max
    /\ IF t \in SerialTables
       THEN nextId[t] <= run.cap[t]
       ELSE Cardinality(db[t]) < run.cap[t]

\* db.insert(t).values(row): the serial id is taken from the sequence
InsertRow(run, t, row) ==
    /\ Room(run, t)
    /\ InsertAllowed(db, t, row)
    /\ db' = [db EXCEPT ![t] = @ \cup {row}]
    /\ nextId' = IF t \in SerialTables
                 THEN [nextId EXCEPT ![t] = @ + 1]
                 ELSE nextId
    /\ inserts' = inserts + 1
    /\ resp' = NoResp
    /\ UNCHANGED reqs

\* db.update(t).set(...).where(id = old.id): `new` replaces `old`
UpdateRow(t, old, new) ==
    /\ InsertAllowed([db EXCEPT ![t] = @ \ {old}], t, new)
    /\ db' = [db EXCEPT ![t] = (@ \ {old}) \cup {new}]
    /\ resp' = NoResp
    /\ UNCHANGED <<nextId, inserts, reqs>>

\* db.delete(t).where(...) of a table no other table references
RemoveRows(t, rows) ==
    /\ rows # {}
    /\ db' = [db EXCEPT ![t] = @ \ rows]
    /\ resp' = NoResp
    /\ UNCHANGED <<nextId, inserts, reqs>>

\* POST /api/boards: the board belongs to the caller, who must be logged in
PostBoard(run) ==
    /\ Admit(run)
    /\ \E actor \in run.creators :
          InsertRow(run, "boards",
                    [id |-> nextId["boards"], userId |-> actor])

\* PATCH /api/boards/:id: any caller, and userId is a field of the body
PatchBoard(run) ==
    /\ Admit(run)
    /\ \E b \in db.boards : \E u \in run.creators \cup {NULL} :
          /\ u # b.userId
          /\ UpdateRow("boards", b, [b EXCEPT !.userId = u])

\* POST /api/lists: 404 unless the board exists
PostList(run) ==
    /\ Admit(run)
    /\ \E boardId \in Ids(db.boards) :
          InsertRow(run, "lists",
                    [id |-> nextId["lists"], boardId |-> boardId])

\* POST /api/cards: 404 unless the list exists
PostCard(run) ==
    /\ Admit(run)
    /\ \E listId \in Ids(db.lists) :
          InsertRow(run, "cards", [id |-> nextId["cards"], listId |-> listId])

\* PATCH /api/cards/:id with a listId: the card moves to another list
PatchCard(run) ==
    /\ Admit(run)
    /\ \E c \in db.cards : \E listId \in 1..nextId["lists"] :
          /\ listId # c.listId
          /\ UpdateRow("cards", c, [c EXCEPT !.listId = listId])

\* POST /api/labels: the body is handed to the store as it is
PostLabel(run) ==
    /\ Admit(run)
    /\ \E boardId \in 1..nextId["boards"] :
          InsertRow(run, "labels",
                    [id |-> nextId["labels"], boardId |-> boardId])

\* POST /api/card-labels: any card with any label, of any board
PostCardLabel(run) ==
    /\ Admit(run)
    /\ \E cardId \in 1..nextId["cards"] : \E labelId \in 1..nextId["labels"] :
          InsertRow(run, "cardLabels",
                    [id |-> nextId["cardLabels"], cardId |-> cardId,
                     labelId |-> labelId])

\* DELETE /api/cards/:cardId/labels/:labelId
DeleteCardLabel(run) ==
    /\ Admit(run)
    /\ \E cl \in db.cardLabels :
          RemoveRows("cardLabels",
                     {r \in db.cardLabels :
                         r.cardId = cl.cardId /\ r.labelId = cl.labelId})

\* POST /api/comments: 404 unless the card exists
PostComment(run) ==
    /\ Admit(run)
    /\ \E cardId \in Ids(db.cards) : \E userId \in run.authors :
          InsertRow(run, "comments",
                    [id |-> nextId["comments"], cardId |-> cardId,
                     userId |-> userId])

\* DELETE /api/comments/:id
DeleteComment(run) ==
    /\ Admit(run)
    /\ \E c \in db.comments : RemoveRows("comments", {c})

\* POST /api/card-members: 404 unless the card and the user exist
PostCardMember(run) ==
    /\ Admit(run)
    /\ \E cardId \in Ids(db.cards) : \E userId \in run.authors :
          InsertRow(run, "cardMembers",
                    [cardId |-> cardId, userId |-> userId])

\* POST /api/checklists
PostChecklist(run) ==
    /\ Admit(run)
    /\ \E cardId \in 1..nextId["cards"] :
          InsertRow(run, "checklists",
                    [id |-> nextId["checklists"], cardId |-> cardId])

\* POST /api/checklist-items
PostChecklistItem(run) ==
    /\ Admit(run)
    /\ \E checklistId \in 1..nextId["checklists"] :
          InsertRow(run, "checklistItems",
                    [id |-> nextId["checklistItems"],
                     checklistId |-> checklistId])

\* DELETE /api/checklist-items/:id
DeleteChecklistItem(run) ==
    /\ Admit(run)
    /\ \E i \in db.checklistItems : RemoveRows("checklistItems", {i})

\* POST /api/board-members: only the board's creator or an administrator
PostBoardMember(run) ==
    /\ Admit(run)
    /\ \E actor \in UserIds : \E b \in db.boards :
       \E userId \in run.invitees : \E role \in run.roles :
          /\ b.userId = actor \/ IsAdmin(db, actor)
          /\ InsertRow(run, "boardMembers",
                       [boardId |-> b.id, userId |-> userId, role |-> role])

(***************************************************************************)
(* Cascading DELETE requests: app.delete("/api/boards/:id") and the like.  *)
(* The route calls the storage method and answers from its result; it      *)
(* never looks at req.user.                                                *)
(***************************************************************************)
InFlight == {s \in Slots : ~Idle(s)}

\* a catch block that undoes the statements already completed
CatchBlockRollingBack(r, d, injected) ==
    [req |-> [r EXCEPT !.st = "done", !.result = FALSE, !.raised = TRUE,
                       !.fault = injected,
                       !.status = DeleteResponse(CaughtOutcome)],
     db |-> r.pre]

\* the catch block of a storage method: the error is logged, false is
\* returned, and the store stays as the completed statements left it
CatchBlock(r, d, injected) ==
    [req |-> [r EXCEPT !.st = "done", !.result = FALSE, !.raised = TRUE,
                       !.fault = injected,
                       !.status = DeleteResponse(CaughtOutcome)],
     db |-> d]

\* the route handler starts and calls the storage method
StartDelete(run) ==
    /\ Cardinality(InFlight) < run.inflight
    /\ \E kind \in run.kinds : \E actor \in run.callers :
       \E id \in 1..nextId[KindTable(kind)] :
          LET s == Min(Slots \ InFlight) IN
          reqs' = [reqs EXCEPT ![s] =
                      [IdleReq EXCEPT !.st = "run", !.kind = kind, !.id = id,
                                      !.actor = actor,
                                      !.todo = StorageMethod(kind, id),
                                      !.pre = db,
                                      !.after = {t \in Slots : Done(t)}]]
    /\ resp' = NoResp
    /\ UNCHANGED <<db, nextId, inserts>>

\* await db.select()...: the rows found fix the iterations of the loop
SelectStep(s) ==
    /\ Running(s)
    /\ reqs[s].todo # << >>
    /\ LET stmt == Head(reqs[s].todo) IN
       /\ stmt.op = "select"
       /\ reqs' = [reqs EXCEPT ![s].todo =
                      Unroll(stmt.table,
                             Ids(SelectWhere(db, stmt.table, stmt.col, stmt.val)))
                      \o Tail(reqs[s].todo)]
    /\ UNCHANGED <<db, nextId, inserts, resp>>

\* await db.delete(t).where(...): a statement in the middle of the method
DeleteStep(s) ==
    /\ Running(s)
    /\ reqs[s].todo # << >>
    /\ LET stmt == Head(reqs[s].todo)
           res == DeleteWhere(db, stmt.table, stmt.col, stmt.val)
           caught == CatchBlock(reqs[s], db, FALSE)
       IN
       /\ stmt.op = "delete"
       /\ IF res.ok
          THEN /\ db' = res.db
               /\ reqs' = [reqs EXCEPT
                              ![s].todo = Tail(reqs[s].todo),
                              ![s].removed =
                                  @ \cup {<<stmt.table, r>> : r \in res.deleted}]
          ELSE /\ db' = caught.db
               /\ reqs' = [reqs EXCEPT ![s] = caught.req]
    /\ resp' = NoResp
    /\ UNCHANGED <<nextId, inserts>>

\* the last statement, db.delete(t).where(id = ...).returning(), and the
\* route's answer: return deleted.length > 0
ReturningStep(s) ==
    /\ Running(s)
    /\ reqs[s].todo # << >>
    /\ LET stmt == Head(reqs[s].todo)
           res == DeleteWhere(db, stmt.table, stmt.col, stmt.val)
           caught == CatchBlock(reqs[s], db, FALSE)
           success == res.deleted # {}
       IN
       /\ stmt.op = "returning"
       /\ IF res.ok
          THEN /\ db' = res.db
               /\ reqs' = [reqs EXCEPT
                              ![s].st = "done",
                              ![s].todo = << >>,
                              ![s].result = success,
                              ![s].status =
                                  DeleteResponse(IF success THEN "true"
                                                            ELSE "false"),
                              ![s].removed =
                                  @ \cup {<<stmt.table, r>> : r \in res.deleted}]
          ELSE /\ db' = caught.db
               /\ reqs' = [reqs EXCEPT ![s] = caught.req]
    /\ resp' = NoResp
    /\ UNCHANGED <<nextId, inserts>>

\* the store fails on the next statement (connection lost, timeout)
StoreFault(s) ==
    /\ Running(s)
    /\ reqs[s].todo # << >>
    /\ LET caught == CatchBlock(reqs[s], db, TRUE) IN
       /\ db' = caught.db
       /\ reqs' = [reqs EXCEPT ![s] = caught.req]
    /\ resp' = NoResp
    /\ UNCHANGED <<nextId, inserts>>

\* the response is sent and the request is over
Respond(s) ==
    /\ Done(s)
    /\ reqs' = [t \in Slots |->
                   IF t = s THEN IdleReq
                   ELSE [reqs[t] EXCEPT !.after = @ \ {s}]]
    /\ UNCHANGED <<db, nextId, inserts, resp>>

(***************************************************************************)
(* Board reads: GET /api/boards and GET /api/boards/:id (routes.ts), and   *)
(* the storage queries they call (db-storage.ts).                          *)
(***************************************************************************)
\* the rows as an array, ordered by createdAt (the order of insertion)
RECURSIVE InOrder(_)
InOrder(rows) ==
    IF rows = {} THEN << >>
    ELSE LET r == CHOOSE x \in rows : \A y \in rows : x.id <= y.id
         IN << r >> \o InOrder(rows \ {r})

getBoards(d) == InOrder(d.boards)

getBoardsForUser(d, userId) == InOrder({b \in d.boards : b.userId = userId})

getBoardMember(d, boardId, userId) ==
    {m \in d.boardMembers : m.boardId = boardId /\ m.userId = userId}

\* boards INNER JOIN boardMembers ON boards.id = boardId AND userId = ...:
\* the boards of the joined rows
JoinedBoards(d, userId) ==
    InOrder({b \in d.boards : getBoardMember(d, b.id, userId) # {}})

Has(map, id) == \E i \in 1..Len(map) : map[i].id = id

\* memberBoards.forEach: if (!allBoardsMap.has(id)) allBoardsMap.set(id, ..)
RECURSIVE AddMissing(_, _)
AddMissing(map, boards) ==
    IF boards = << >> THEN map
    ELSE AddMissing(IF Has(map, Head(boards).id) THEN map
                    ELSE Append(map, Head(boards)),
                    Tail(boards))

\* the two arrays joined without looking for boards already present
getBoardsUserCanAccessTwice(d, userId) ==
    getBoardsForUser(d, userId) \o JoinedBoards(d, userId)

getBoardsUserCanAccess(d, userId) ==
    AddMissing(getBoardsForUser(d, userId), JoinedBoards(d, userId))

\* app.get("/api/boards"): the boards sent to the caller
BoardListing(d, actor) ==
    IF actor = NULL THEN getBoards(d)
    ELSE IF IsAdmin(d, actor) THEN getBoards(d)
    ELSE getBoardsUserCanAccess(d, actor)

\* app.get("/api/boards/:id") without the membership lookup for a caller
\* who is neither administrator nor creator
BoardReadStatusNoMembers(d, actor, id) ==
    LET found == {b \in d.boards : b.id = id} IN
    IF found = {} THEN 404
    ELSE LET board == CHOOSE b \in found : TRUE IN
         IF actor # NULL
         THEN IF IsAdmin(d, actor) THEN 200
              ELSE IF board.userId = actor THEN 200
              ELSE 403
         ELSE IF board.userId # NULL THEN 403
         ELSE 200

\* app.get("/api/boards/:id"): the status sent to the caller
BoardReadStatus(d, actor, id) ==
    LET found == {b \in d.boards : b.id = id} IN
    IF found = {} THEN 404
    ELSE LET board == CHOOSE b \in found : TRUE IN
         IF actor # NULL
         THEN IF IsAdmin(d, actor) THEN 200
              ELSE IF board.userId = actor THEN 200
              ELSE IF getBoardMember(d, id, actor) = {} THEN 403
              ELSE 200
         ELSE IF board.userId # NULL THEN 403
         ELSE 200

GetBoards(run) ==
    /\ Admit(run)
    /\ \E actor \in run.callers :
          resp' = [route |-> "GET /api/boards", actor |-> actor, id |-> NULL,
                   userId |-> NULL, status |-> 200,
                   body |-> BoardListing(db, actor)]
    /\ UNCHANGED <<db, nextId, inserts, reqs>>

GetBoard(run) ==
    /\ Admit(run)
    /\ \E actor \in run.callers : \E id \in 1..nextId["boards"] :
          LET status == BoardReadStatus(db, actor, id) IN
          resp' = [route |-> "GET /api/boards/:id", actor |-> actor,
                   id |-> id, userId |-> NULL, status |-> status,
                   body |-> IF status = 200
                            THEN InOrder({b \in db.boards : b.id = id})
                            ELSE << >>]
    /\ UNCHANGED <<db, nextId, inserts, reqs>>

(***************************************************************************)
(* Board members: the routes under /api/board-members and                  *)
(* /api/boards/:boardId/members (routes.ts), every caller and every        *)
(* answer.                                                                 *)
(***************************************************************************)
\* req.user && (board.userId === req.user.id || role is admin)
MayManageMembers(d, actor, boardId) ==
    /\ actor # NULL
    /\ \/ \E b \in d.boards : b.id = boardId /\ b.userId = actor
       \/ IsAdmin(d, actor)

\* app.post("/api/board-members") letting every logged-in caller through
AddMemberStatusAnyUser(d, actor, row) ==
    IF ~ \E b \in d.boards : b.id = row.boardId THEN 404
    ELSE IF ~ \E u \in d.users : u.id = row.userId THEN 404
    ELSE IF actor # NULL
         THEN IF InsertAllowed(d, "boardMembers", row) THEN 201 ELSE 500
         ELSE 403

\* app.post("/api/board-members"): the status sent to the caller
AddMemberStatus(d, actor, row) ==
    IF ~ \E b \in d.boards : b.id = row.boardId THEN 404
    ELSE IF ~ \E u \in d.users : u.id = row.userId THEN 404
    ELSE IF MayManageMembers(d, actor, row.boardId)
         THEN IF InsertAllowed(d, "boardMembers", row) THEN 201 ELSE 500
         ELSE 403

\* app.patch("/api/boards/:boardId/members/:userId")
UpdateMemberStatus(d, actor, boardId, userId, role) ==
    IF role = "" THEN 400
    ELSE IF ~ \E b \in d.boards : b.id = boardId THEN 404
    ELSE IF MayManageMembers(d, actor, boardId)
         THEN IF getBoardMember(d, boardId, userId) = {} THEN 404 ELSE 200
         ELSE 403

\* app.delete("/api/boards/:boardId/members/:userId")
RemoveMemberStatus(d, actor, boardId, userId) ==
    IF ~ \E b \in d.boards : b.id = boardId THEN 404
    ELSE IF MayManageMembers(d, actor, boardId)
            \/ (actor # NULL /\ actor = userId)
         THEN IF getBoardMember(d, boardId, userId) = {} THEN 404 ELSE 204
         ELSE 403

MemberResp(route, actor, boardId, userId, status) ==
    [route |-> route, actor |-> actor, id |-> boardId, userId |-> userId,
     status |-> status, body |-> << >>]

AddBoardMember(run) ==
    /\ Admit(run)
    /\ \E actor \in run.callers : \E boardId \in 1..nextId["boards"] :
       \E userId \in run.invitees : \E role \in run.roles :
          LET row == [boardId |-> boardId, userId |-> userId, role |-> role]
              status == AddMemberStatus(db, actor, row)
          IN /\ status = 201 => Room(run, "boardMembers")
             /\ db' = IF status = 201
                      THEN [db EXCEPT !.boardMembers = @ \cup {row}]
                      ELSE db
             /\ inserts' = IF status = 201 THEN inserts + 1 ELSE inserts
             /\ resp' = MemberResp("POST /api/board-members", actor, boardId,
                                   userId, status)
    /\ UNCHANGED <<nextId, reqs>>

ChangeBoardMemberRole(run) ==
    /\ Admit(run)
    /\ \E actor \in run.callers : \E boardId \in 1..nextId["boards"] :
       \E userId \in run.invitees : \E role \in run.roles \cup {""} :
          LET status == UpdateMemberStatus(db, actor, boardId, userId, role)
              old == getBoardMember(db, boardId, userId)
          IN /\ db' = IF status = 200
                      THEN [db EXCEPT !.boardMembers =
                               (@ \ old) \cup {[m EXCEPT !.role = role] :
                                               m \in old}]
                      ELSE db
             /\ resp' = MemberResp("PATCH /api/boards/:boardId/members/:userId",
                                   actor, boardId, userId, status)
    /\ UNCHANGED <<nextId, inserts, reqs>>

RemoveBoardMember(run) ==
    /\ Admit(run)
    /\ \E actor \in run.callers : \E boardId \in 1..nextId["boards"] :
       \E userId \in run.invitees :
          LET status == RemoveMemberStatus(db, actor, boardId, userId) IN
          /\ db' = IF status = 204
                   THEN [db EXCEPT !.boardMembers =
                            @ \ getBoardMember(db, boardId, userId)]
                   ELSE db
          /\ resp' = MemberResp("DELETE /api/boards/:boardId/members/:userId",
                                actor, boardId, userId, status)
    /\ UNCHANGED <<nextId, inserts, reqs>>

\* getBoardMembers(boardId): the users of the board's membership rows, each
\* with the role of its row
getBoardMembers(d, boardId) ==
    LET boardMembers == {m \in d.boardMembers : m.boardId = boardId}
        users == {u \in d.users : \E m \in boardMembers : m.userId = u.id}
    IN InOrder({ [id |-> u.id, role |-> u.role,
                  boardRole |-> (CHOOSE m \in boardMembers :
                                    m.userId = u.id).role] : u \in users })

\* app.get("/api/boards/:boardId/members")
GetBoardMembers(run) ==
    /\ Admit(run)
    /\ \E actor \in run.callers : \E boardId \in 1..nextId["boards"] :
          resp' = [route |-> "GET /api/boards/:boardId/members",
                   actor |-> actor, id |-> boardId, userId |-> NULL,
                   status |-> 200, body |-> getBoardMembers(db, boardId)]
    /\ UNCHANGED <<db, nextId, inserts, reqs>>

(***************************************************************************)
(* Users: PATCH and DELETE /api/users/:id (routes.ts) and deleteUser       *)
(* (db-storage.ts).                                                        *)
(***************************************************************************)
\* request bodies of PATCH /api/users/:id: without role, and with one
UserBodies ==
    { [name |-> "n"] } \cup { [role |-> r] : r \in {"", "admin", "user"} }

\* req.body.role as a condition: undefined and "" are falsy
HasTruthyRole(body) == "role" \in DOMAIN body /\ body.role # ""

\* app.patch("/api/users/:id"): the status sent to the caller
PatchUserStatus(d, actor, id, body) ==
    IF ~ \E u \in d.users : u.id = id THEN 404
    ELSE IF HasTruthyRole(body) /\ (actor = NULL \/ ~IsAdmin(d, actor))
         THEN 403
         ELSE 200

\* updateUser: db.update(users).set(userData).where(id = ...)
updateUser(d, id, body) ==
    [d EXCEPT !.users =
        { IF u.id = id /\ "role" \in DOMAIN body
          THEN [u EXCEPT !.role = body.role] ELSE u : u \in @ }]

PatchUser(run) ==
    /\ Admit(run)
    /\ \E actor \in run.callers : \E id \in 1..nextId["users"] :
       \E body \in UserBodies :
          LET status == PatchUserStatus(db, actor, id, body) IN
          /\ db' = IF status = 200 THEN updateUser(db, id, body) ELSE db
          /\ resp' = [route |-> "PATCH /api/users/:id", actor |-> actor,
                      id |-> id, userId |-> id, status |-> status,
                      body |-> << >>]
    /\ UNCHANGED <<nextId, inserts, reqs>>

\* app.delete("/api/users/:id") without the check of the caller's own id
DeleteUserStatusNoSelfCheck(d, actor, id) ==
    IF actor = NULL \/ ~IsAdmin(d, actor) THEN 403
    ELSE NULL

\* app.delete("/api/users/:id"): the status of a request refused before
\* deleteUser is called, NULL for one that calls it
DeleteUserStatus(d, actor, id) ==
    IF actor = NULL \/ ~IsAdmin(d, actor) THEN 403
    ELSE IF actor = id THEN 400
    ELSE NULL

DeleteUser(run) ==
    /\ Cardinality(InFlight) < run.inflight
    /\ \E actor \in run.callers : \E id \in 1..nextId["users"] :
          LET status == DeleteUserStatus(db, actor, id)
              s == Min(Slots \ InFlight)
          IN IF status = NULL
             THEN /\ reqs' = [reqs EXCEPT ![s] =
                                 [IdleReq EXCEPT
                                     !.st = "run", !.kind = "user",
                                     !.id = id, !.actor = actor,
                                     !.todo = StorageMethod("user", id),
                                     !.pre = db,
                                     !.after = {t \in Slots : Done(t)}]]
                  /\ resp' = NoResp
             ELSE /\ resp' = [route |-> "DELETE /api/users/:id",
                              actor |-> actor, id |-> id, userId |-> id,
                              status |-> status, body |-> << >>]
                  /\ UNCHANGED reqs
    /\ UNCHANGED <<db, nextId, inserts>>

\* const user = await this.getUser(id); if (!user) return false;
FindStep(s) ==
    /\ Running(s)
    /\ reqs[s].todo # << >>
    /\ LET stmt == Head(reqs[s].todo) IN
       /\ stmt.op = "find"
       /\ reqs' = IF SelectWhere(db, stmt.table, stmt.col, stmt.val) # {}
                  THEN [reqs EXCEPT ![s].todo = Tail(reqs[s].todo)]
                  ELSE [reqs EXCEPT ![s].st = "done", ![s].todo = << >>,
                                    ![s].result = FALSE,
                                    ![s].status = DeleteResponse("false")]
    /\ UNCHANGED <<db, nextId, inserts, resp>>

(***************************************************************************)
(* Spec: requests are handled one at a time (no request starts while a     *)
(* cascading delete is in flight).                                         *)
(***************************************************************************)
Next ==
    \/ PostBoard(SeqRun)
    \/ PostList(SeqRun)
    \/ PostCard(SeqRun)
    \/ PatchCard(SeqRun)
    \/ PostLabel(SeqRun)
    \/ PostCardLabel(SeqRun)
    \/ DeleteCardLabel(SeqRun)
    \/ PostComment(SeqRun)
    \/ DeleteComment(SeqRun)
    \/ PostCardMember(SeqRun)
    \/ PostChecklist(SeqRun)
    \/ PostChecklistItem(SeqRun)
    \/ DeleteChecklistItem(SeqRun)
    \/ PostBoardMember(SeqRun)
    \/ StartDelete(SeqRun)
    \/ \E s \in Slots : SelectStep(s)
    \/ \E s \in Slots : DeleteStep(s)
    \/ \E s \in Slots : ReturningStep(s)
    \/ \E s \in Slots : StoreFault(s)
    \/ \E s \in Slots : Respond(s)

Spec == Init /\ [][Next]_vars

(***************************************************************************)
(* SpecAccess: boards, their members, lists and cards; reads and DELETEs   *)
(* by every caller, one request at a time.                                 *)
(***************************************************************************)
NextAccess ==
    \/ PostBoard(AccessRun)
    \/ PatchBoard(AccessRun)
    \/ PostBoardMember(AccessRun)
    \/ PostList(AccessRun)
    \/ PostCard(AccessRun)
    \/ GetBoards(AccessRun)
    \/ GetBoard(AccessRun)
    \/ StartDelete(AccessRun)
    \/ \E s \in Slots : SelectStep(s)
    \/ \E s \in Slots : DeleteStep(s)
    \/ \E s \in Slots : ReturningStep(s)
    \/ \E s \in Slots : Respond(s)

SpecAccess == Init /\ [][NextAccess]_vars

(***************************************************************************)
(* SpecConc: at every `await` of a cascading delete the other handlers may *)
(* run before its next statement does.                                     *)
(***************************************************************************)
NextConc ==
    \/ PostBoard(ConcRun)
    \/ PostList(ConcRun)
    \/ PostCard(ConcRun)
    \/ PatchCard(ConcRun)
    \/ PostLabel(ConcRun)
    \/ PostCardLabel(ConcRun)
    \/ DeleteCardLabel(ConcRun)
    \/ PostComment(ConcRun)
    \/ DeleteComment(ConcRun)
    \/ PostCardMember(ConcRun)
    \/ PostChecklist(ConcRun)
    \/ PostChecklistItem(ConcRun)
    \/ DeleteChecklistItem(ConcRun)
    \/ PostBoardMember(ConcRun)
    \/ StartDelete(ConcRun)
    \/ \E s \in Slots : SelectStep(s)
    \/ \E s \in Slots : DeleteStep(s)
    \/ \E s \in Slots : ReturningStep(s)
    \/ \E s \in Slots : Respond(s)

SpecConc == Init /\ [][NextConc]_vars

(***************************************************************************)
(* SpecCardList: a store built by earlier requests, then two calls of      *)
(* deleteCard and deleteList with their statements interleaved; the run    *)
(* ends with the two calls returned.                                       *)
(***************************************************************************)
NextCardList ==
    \/ PostBoard(CardListRun)
    \/ PostList(CardListRun)
    \/ PostCard(CardListRun)
    \/ PostComment(CardListRun)
    \/ PostChecklist(CardListRun)
    \/ PostChecklistItem(CardListRun)
    \/ StartDelete(CardListRun)
    \/ \E s \in Slots : SelectStep(s)
    \/ \E s \in Slots : DeleteStep(s)
    \/ \E s \in Slots : ReturningStep(s)

SpecCardList == Init /\ [][NextCardList]_vars

(***************************************************************************)
(* SpecTwoBoards: a store built by earlier requests, then two deleteBoard  *)
(* calls with their statements interleaved, or one after the other; the    *)
(* run ends with the two calls returned.                                   *)
(***************************************************************************)
NextTwoBoards ==
    \/ PostBoard(TwoBoardsRun)
    \/ PostList(TwoBoardsRun)
    \/ PostCard(TwoBoardsRun)
    \/ PostLabel(TwoBoardsRun)
    \/ PostCardLabel(TwoBoardsRun)
    \/ StartDelete(TwoBoardsRun)
    \/ \E s \in Slots : SelectStep(s)
    \/ \E s \in Slots : DeleteStep(s)
    \/ \E s \in Slots : ReturningStep(s)

SpecTwoBoards == Init /\ [][NextTwoBoards]_vars

(***************************************************************************)
(* SpecMembers: boards and the requests that add, change, remove and list  *)
(* their members, by every caller.                                         *)
(***************************************************************************)
NextMembers ==
    \/ PostBoard(MembersRun)
    \/ PatchBoard(MembersRun)
    \/ AddBoardMember(MembersRun)
    \/ ChangeBoardMemberRole(MembersRun)
    \/ RemoveBoardMember(MembersRun)
    \/ GetBoardMembers(MembersRun)

SpecMembers == Init /\ [][NextMembers]_vars

(***************************************************************************)
(* SpecUsers: users, their boards and memberships, and the requests that   *)
(* change or delete a user, by every caller.                               *)
(***************************************************************************)
NextUsers ==
    \/ PostBoard(UsersRun)
    \/ PostBoardMember(UsersRun)
    \/ PatchUser(UsersRun)
    \/ DeleteUser(UsersRun)
    \/ \E s \in Slots : FindStep(s)
    \/ \E s \in Slots : DeleteStep(s)
    \/ \E s \in Slots : ReturningStep(s)
    \/ \E s \in Slots : Respond(s)

SpecUsers == Init /\ [][NextUsers]_vars


(***************************************************************************)
(* The order column: POST /api/lists and POST /api/cards with the `order`  *)
(* and `dueDate` fields of their bodies (routes.ts), and getLists and      *)
(* getCards, which sort by it (db-storage.ts).  The claims about deletes   *)
(* and access read neither column and use PostList and PostCard above.     *)
(***************************************************************************)
\* one request at a time, over one board, its lists and their cards
OrderRun ==
    [max |-> MaxOrderInserts, conc |-> FALSE, inflight |-> 1,
     cap |-> [Cap(MaxOrderedRows, MaxChildRows) EXCEPT
                 !["boards"] = MaxChildRows],
     creators |-> {2}, invitees |-> {3}, roles |-> {"editor"},
     authors |-> {2}, callers |-> {NULL}, kinds |-> {},
     orders |-> {-2, 0, MaxOrder}, dueDates |-> {NULL}]

\* Math.max(...rows.map(r => r.order))
Max(S) == CHOOSE x \in S : \A y \in S : y <= x

\* the request bodies: without the fields `order` and `dueDate`, or with
OrderBodies(run) ==
    LET orders == { [title |-> "t"] }
                  \cup { [title |-> "t", order |-> o] : o \in run.orders }
    IN orders \cup
       { [title |-> "t", dueDate |-> due] : due \in run.dueDates \ {NULL} }

\* .orderBy(asc(order)): every arrangement of the rows in which the order
\* column never decreases (the store is free to put equal orders either way)
RECURSIVE Arrangements(_)
Arrangements(rows) ==
    IF rows = {} THEN { << >> }
    ELSE UNION { { << r >> \o rest : rest \in Arrangements(rows \ {r}) } :
                 r \in {x \in rows : \A y \in rows : x.order <= y.order} }

getLists(d, boardId) == Arrangements(SelectWhere(d, "lists", "boardId", boardId))

getCards(d, listId) == Arrangements(SelectWhere(d, "cards", "listId", listId))

\* maxOrder computed from the number of siblings instead of their orders
maxOrderByCount(rows) == Cardinality(rows) - 1

\* const maxOrder = rows.length > 0 ? Math.max(...) : -1
maxOrder(rows) ==
    IF Cardinality(rows) > 0 THEN Max({r.order : r \in rows}) ELSE -1

\* if (validatedData.order === undefined) validatedData.order = maxOrder + 1
OrderOf(body, siblings) ==
    IF "order" \in DOMAIN body THEN body.order ELSE maxOrder(siblings) + 1

DueDateOf(body) == IF "dueDate" \in DOMAIN body THEN body.dueDate ELSE NULL

\* the answer of a POST that inserts `row` under parent row `parentId` of
\* table `parents`: 404 without the parent, 500 when the store refuses the
\* row (an order past the largest integer), else 201
CreateStatus(d, parents, parentId, row) ==
    IF SelectWhere(d, parents, "id", parentId) = {} THEN 404
    ELSE IF row.order > MaxOrder THEN 500
    ELSE 201

\* the handler's effect on the store and its answer
Created(run, route, t, parentId, row, status, body) ==
    /\ status = 201 => Room(run, t)
    /\ db' = IF status = 201 THEN [db EXCEPT ![t] = @ \cup {row}] ELSE db
    /\ nextId' = IF status = 201 THEN [nextId EXCEPT ![t] = @ + 1] ELSE nextId
    /\ inserts' = IF status = 201 THEN inserts + 1 ELSE inserts
    /\ resp' = [route |-> route, actor |-> NULL, id |-> parentId,
                userId |-> NULL, status |-> status,
                body |-> IF status = 201 THEN << row >> ELSE << >>,
                sent |-> body]
    /\ UNCHANGED reqs

\* app.post("/api/lists")
PostListWithOrder(run) ==
    /\ Admit(run)
    /\ \E boardId \in 1..nextId["boards"] : \E body \in OrderBodies(run) :
          LET lists == SelectWhere(db, "lists", "boardId", boardId)
              row == [id |-> nextId["lists"], boardId |-> boardId,
                      order |-> OrderOf(body, lists)]
          IN Created(run, "POST /api/lists", "lists", boardId, row,
                     CreateStatus(db, "boards", boardId, row), body)

\* app.post("/api/cards")
PostCardWithOrder(run) ==
    /\ Admit(run)
    /\ \E listId \in 1..nextId["lists"] : \E body \in OrderBodies(run) :
          LET cards == SelectWhere(db, "cards", "listId", listId)
              row == [id |-> nextId["cards"], listId |-> listId,
                      order |-> OrderOf(body, cards),
                      dueDate |-> DueDateOf(body)]
          IN Created(run, "POST /api/cards", "cards", listId, row,
                     CreateStatus(db, "lists", listId, row), body)

(***************************************************************************)
(* SpecOrder: one board, lists and cards created with and without an       *)
(* order, one request at a time.                                           *)
(***************************************************************************)
NextOrder ==
    \/ PostBoard(OrderRun)
    \/ PostListWithOrder(OrderRun)
    \/ PostCardWithOrder(OrderRun)

SpecOrder == Init /\ [][NextOrder]_vars


(***************************************************************************)
(* Reads of a board's contents (routes.ts): the lists, cards, labels and   *)
(* members of a board, and the GET routes with three segments under        *)
(* /api/cards, which the router tries in the order of their registration.  *)
(***************************************************************************)
\* const now = new Date(): due dates before it are overdue
Now == 2

\* one request at a time, by every caller, over one board and what it holds
ReadsRun ==
    [max |-> MaxReadInserts, conc |-> FALSE, inflight |-> 1,
     cap |-> [Cap(MaxParentRows, MaxChildRows) EXCEPT
                 !["boards"] = MaxChildRows],
     creators |-> {2}, invitees |-> {3}, roles |-> {"editor"},
     authors |-> {2}, callers |-> Actors, kinds |-> {},
     orders |-> {0}, dueDates |-> {NULL, Now - 1, Now + 1}]

\* a select without ORDER BY: the rows in any arrangement
RECURSIVE AnyArrangement(_)
AnyArrangement(rows) ==
    IF rows = {} THEN { << >> }
    ELSE UNION { { << r >> \o rest : rest \in AnyArrangement(rows \ {r}) } :
                 r \in rows }

getLabels(d, boardId) ==
    AnyArrangement(SelectWhere(d, "labels", "boardId", boardId))

\* .orderBy(asc(checklists.order)); the rows of the model carry no order
getChecklists(d, cardId) ==
    AnyArrangement(SelectWhere(d, "checklists", "cardId", cardId))

ReadRoutes ==
    {"GET /api/boards/:boardId/lists", "GET /api/lists/:listId/cards",
     "GET /api/boards/:boardId/labels", "GET /api/boards/:boardId/members"}

\* the bodies the handler of `route` may send for the id in its path; none
\* of the four handlers looks at req.user
ReadBodies(d, route, id) ==
    CASE route = "GET /api/boards/:boardId/lists" -> getLists(d, id)
      [] route = "GET /api/lists/:listId/cards" -> getCards(d, id)
      [] route = "GET /api/boards/:boardId/labels" -> getLabels(d, id)
      [] route = "GET /api/boards/:boardId/members" ->
            { getBoardMembers(d, id) }

ReadAnswer(run, route, ids) ==
    /\ \E actor \in run.callers : \E id \in ids :
       \E body \in ReadBodies(db, route, id) :
          resp' = [route |-> route, actor |-> actor, id |-> id,
                   userId |-> NULL, status |-> 200, body |-> body]
    /\ UNCHANGED <<db, nextId, inserts, reqs>>

\* app.get("/api/boards/:boardId/lists")
GetLists(run) ==
    /\ Admit(run)
    /\ ReadAnswer(run, "GET /api/boards/:boardId/lists", 1..nextId["boards"])

\* app.get("/api/lists/:listId/cards")
GetCards(run) ==
    /\ Admit(run)
    /\ ReadAnswer(run, "GET /api/lists/:listId/cards", 1..nextId["lists"])

\* app.get("/api/boards/:boardId/labels")
GetLabels(run) ==
    /\ Admit(run)
    /\ ReadAnswer(run, "GET /api/boards/:boardId/labels", 1..nextId["boards"])

\* path segments, as the characters they are made of
Api == << "a", "p", "i" >>
Cards == << "c", "a", "r", "d", "s" >>
ChecklistsDashboard ==
    << "c", "h", "e", "c", "k", "l", "i", "s", "t", "s", "-",
       "d", "a", "s", "h", "b", "o", "a", "r", "d" >>
OverdueDashboard ==
    << "o", "v", "e", "r", "d", "u", "e", "-",
       "d", "a", "s", "h", "b", "o", "a", "r", "d" >>

\* a segment of a route's path: a literal, or a parameter (":id")
Literal(chars) == [param |-> FALSE, chars |-> chars]
Param == [param |-> TRUE, chars |-> << >>]

\* the GET routes with three segments under /api/cards, in the order in
\* which registerRoutes registers them
CardGetRoutes ==
    << [name |-> "GET /api/cards/:id",
        path |-> << Literal(Api), Literal(Cards), Param >>],
       [name |-> "GET /api/cards/checklists-dashboard",
        path |-> << Literal(Api), Literal(Cards),
                    Literal(ChecklistsDashboard) >>],
       [name |-> "GET /api/cards/overdue-dashboard",
        path |-> << Literal(Api), Literal(Cards),
                    Literal(OverdueDashboard) >>] >>

\* the route's path matches the request's: a parameter matches any
\* segment that is not empty, a literal only itself
Matches(route, path) ==
    /\ Len(route.path) = Len(path)
    /\ \A i \in 1..Len(path) :
          IF route.path[i].param THEN path[i] # << >>
          ELSE route.path[i].chars = path[i]

\* the first registered route that matches handles the request (no
\* handler calls next())
Dispatch(routes, path) ==
    LET hits == {i \in 1..Len(routes) : Matches(routes[i], path)}
    IN IF hits = {} THEN "none" ELSE routes[Min(hits)].name

DigitValue ==
    [c \in {"0", "1", "2", "3", "4", "5", "6", "7", "8", "9"} |->
        CASE c = "0" -> 0 [] c = "1" -> 1 [] c = "2" -> 2 [] c = "3" -> 3
          [] c = "4" -> 4 [] c = "5" -> 5 [] c = "6" -> 6 [] c = "7" -> 7
          [] c = "8" -> 8 [] c = "9" -> 9]

\* the value of the digits the characters start with, after `value`
RECURSIVE LeadingDigits(_, _)
LeadingDigits(chars, value) ==
    IF chars = << >> \/ Head(chars) \notin DOMAIN DigitValue THEN value
    ELSE LeadingDigits(Tail(chars), 10 * value + DigitValue[Head(chars)])

\* a JavaScript number: NaN, or an integer
NaN == [nan |-> TRUE, value |-> 0]
Number(n) == [nan |-> FALSE, value |-> n]
isNaN(x) == x.nan

\* parseInt(req.params.id): the digits the segment starts with, after an
\* optional sign; NaN when it starts with none
parseInt(chars) ==
    LET signed == chars # << >> /\ Head(chars) \in {"-", "+"}
        digits == IF signed THEN Tail(chars) ELSE chars
    IN IF digits = << >> \/ Head(digits) \notin DOMAIN DigitValue THEN NaN
       ELSE IF signed /\ Head(chars) = "-"
            THEN Number(0 - LeadingDigits(digits, 0))
            ELSE Number(LeadingDigits(digits, 0))

\* app.get("/api/cards/:id"): status and body
CardAnswer(d, chars) ==
    LET id == parseInt(chars)
        found == SelectWhere(d, "cards", "id", id.value)
    IN IF isNaN(id) THEN { [status |-> 400, body |-> << >>] }
       ELSE IF found = {} THEN { [status |-> 404, body |-> << >>] }
       ELSE { [status |-> 200, body |-> << c >>] : c \in found }

\* for (const card of cards) if (card.dueDate && dueDate < now) push(...)
RECURSIVE OverdueOfCards(_, _)
OverdueOfCards(cards, boardId) ==
    IF cards = << >> THEN << >>
    ELSE LET card == Head(cards)
             rest == OverdueOfCards(Tail(cards), boardId)
         IN IF card.dueDate # NULL /\ card.dueDate < Now
            THEN << [id |-> card.id, dueDate |-> card.dueDate,
                     boardId |-> boardId] >> \o rest
            ELSE rest

\* for (const checklist of checklists) push({card, checklist, items})
RECURSIVE ChecklistsOfCard(_, _, _, _)
ChecklistsOfCard(d, checklists, card, boardId) ==
    IF checklists = << >> THEN << >>
    ELSE << [id |-> card.id, dueDate |-> card.dueDate, boardId |-> boardId,
             checklistId |-> Head(checklists).id,
             totalItems |->
                 Cardinality(SelectWhere(d, "checklistItems", "checklistId",
                                         Head(checklists).id))] >>
         \o ChecklistsOfCard(d, Tail(checklists), card, boardId)

\* for (const card of cards): what the dashboard `kind` pushes for them
RECURSIVE DashboardOfCards(_, _, _, _)
DashboardOfCards(d, kind, cards, boardId) ==
    IF kind = "overdue" THEN { OverdueOfCards(cards, boardId) }
    ELSE IF cards = << >> THEN { << >> }
    ELSE { ChecklistsOfCard(d, cl, Head(cards), boardId) \o rest :
           cl \in getChecklists(d, Head(cards).id),
           rest \in DashboardOfCards(d, kind, Tail(cards), boardId) }

\* for (const list of lists) { const cards = await getCards(list.id) ... }
RECURSIVE DashboardOfLists(_, _, _, _)
DashboardOfLists(d, kind, lists, boardId) ==
    IF lists = << >> THEN { << >> }
    ELSE UNION { { first \o rest :
                   first \in DashboardOfCards(d, kind, cards, boardId),
                   rest \in DashboardOfLists(d, kind, Tail(lists), boardId) } :
                 cards \in getCards(d, Head(lists).id) }

\* for (const board of boards) { const lists = await getLists(board.id) .. }
RECURSIVE DashboardOfBoards(_, _, _)
DashboardOfBoards(d, kind, boards) ==
    IF boards = << >> THEN { << >> }
    ELSE UNION { { first \o rest :
                   first \in DashboardOfLists(d, kind, lists, Head(boards).id),
                   rest \in DashboardOfBoards(d, kind, Tail(boards)) } :
                 lists \in getLists(d, Head(boards).id) }

\* app.get("/api/cards/overdue-dashboard") and
\* app.get("/api/cards/checklists-dashboard"): status and body
DashboardAnswer(d, kind, actor) ==
    IF actor = NULL THEN { [status |-> 401, body |-> << >>] }
    ELSE { [status |-> 200, body |-> body] :
           body \in DashboardOfBoards(d, kind,
                                      getBoardsUserCanAccess(d, actor)) }

\* the answers of the handler of the route named `name`
HandlerAnswer(d, name, actor, chars) ==
    CASE name = "GET /api/cards/:id" -> CardAnswer(d, chars)
      [] name = "GET /api/cards/checklists-dashboard" ->
            DashboardAnswer(d, "checklists", actor)
      [] name = "GET /api/cards/overdue-dashboard" ->
            DashboardAnswer(d, "overdue", actor)

\* the last segments of the requests GET /api/cards/<segment>
CardSegments ==
    { << "1" >>, << "2" >>, ChecklistsDashboard, OverdueDashboard }

\* GET /api/cards/<segment>: the router picks the route, its handler answers
GetCardsSegment(run) ==
    /\ Admit(run)
    /\ \E actor \in run.callers : \E chars \in CardSegments :
          LET name == Dispatch(CardGetRoutes, << Api, Cards, chars >>) IN
          \E answer \in HandlerAnswer(db, name, actor, chars) :
             resp' = [route |-> name, actor |-> actor, id |-> NULL,
                      userId |-> NULL, status |-> answer.status,
                      body |-> answer.body, path |-> chars]
    /\ UNCHANGED <<db, nextId, inserts, reqs>>

(***************************************************************************)
(* SpecReads: one board with a member, lists, cards and a label, read by   *)
(* every caller, one request at a time.                                    *)
(***************************************************************************)
NextReads ==
    \/ PostBoard(ReadsRun)
    \/ PostBoardMember(ReadsRun)
    \/ PostListWithOrder(ReadsRun)
    \/ PostCardWithOrder(ReadsRun)
    \/ PostLabel(ReadsRun)
    \/ GetBoard(ReadsRun)
    \/ GetLists(ReadsRun)
    \/ GetCards(ReadsRun)
    \/ GetLabels(ReadsRun)
    \/ GetBoardMembers(ReadsRun)
    \/ GetCardsSegment(ReadsRun)

SpecReads == Init /\ [][NextReads]_vars


(***************************************************************************)
(* The seeder (server/seeder.ts), run when the server starts, and          *)
(* createUser (db-storage.ts).                                             *)
(***************************************************************************)
\* the store of a database no user has been written to
FreshDb == [EmptyDb EXCEPT !.users = {}]

InitFresh ==
    /\ db = FreshDb
    /\ nextId = [t \in SerialTables |-> 1]
    /\ inserts = 0
    /\ reqs = [s \in Slots |-> IdleReq]
    /\ resp = NoResp

\* one request at a time, by the seeded account or by nobody
SeederRun ==
    [max |-> MaxSeederInserts, conc |-> FALSE, inflight |-> 1,
     cap |-> [Cap(MaxParentRows, MaxChildRows) EXCEPT
                 !["boards"] = MaxChildRows],
     creators |-> {1}, invitees |-> {1}, roles |-> {"editor"},
     authors |-> {1}, callers |-> {NULL, 1}, kinds |-> {},
     orders |-> {0}, dueDates |-> {NULL}]

\* const DEFAULT_ADMIN = { username: "admin", ..., role: "admin" }
DEFAULT_ADMIN == [username |-> "admin", password |-> "admin123",
                  email |-> "admin@kanban.local",
                  name |-> "Administrador do Sistema", role |-> "admin"]

\* role: varchar("role").notNull().default("user")
DefaultRole == "user"

\* the fields createUser copies from userData into dataToInsert
CopiedFields == {"username", "email", "password", "name", "profilePicture"}

\* createUser: the row inserted from dataToInsert; a column dataToInsert
\* does not name takes the default of the schema
createUser(id, userData) ==
    LET dataToInsert ==
            [f \in DOMAIN userData \cap CopiedFields |-> userData[f]]
    IN [id |-> id,
        role |-> IF "role" \in DOMAIN dataToInsert THEN dataToInsert.role
                 ELSE DefaultRole]

\* runSeeder: with no user in the table it creates the default account and
\* returns true, else it returns false
RunSeeder ==
    /\ NoneInFlight
    /\ LET totalUsers == Cardinality(db.users)
           adminUser == createUser(nextId["users"],
                                   [DEFAULT_ADMIN EXCEPT !.password = "hash"])
       IN IF totalUsers = 0
          THEN /\ db' = [db EXCEPT !.users = @ \cup {adminUser}]
               /\ nextId' = [nextId EXCEPT !["users"] = @ + 1]
               /\ resp' = [route |-> "runSeeder", actor |-> NULL, id |-> NULL,
                           userId |-> adminUser.id, status |-> NULL,
                           body |-> << adminUser >>, returned |-> TRUE]
          ELSE /\ resp' = [route |-> "runSeeder", actor |-> NULL, id |-> NULL,
                           userId |-> NULL, status |-> NULL,
                           body |-> << >>, returned |-> FALSE]
               /\ UNCHANGED <<db, nextId>>
    /\ UNCHANGED <<inserts, reqs>>

(***************************************************************************)
(* SpecSeeder: a fresh database; the server starts (and restarts), and     *)
(* the account the seeder created uses the routes.                         *)
(***************************************************************************)
NextSeeder ==
    \/ RunSeeder
    \/ PostBoard(SeederRun)
    \/ PostListWithOrder(SeederRun)
    \/ PostCardWithOrder(SeederRun)
    \/ PatchUser(SeederRun)

SpecSeeder == InitFresh /\ [][NextSeeder]_vars


(***************************************************************************)
(* What the claims speak of.                                               *)
(***************************************************************************)
Exists(d, t, id) == \E r \in d[t] : r.id = id

\* the rows that reference row `id` of table t, as <<table, row>>
Children(d, t, id) ==
    UNION { { <<fk[1], c>> : c \in {x \in d[fk[1]] : x[fk[2]] = id} } :
            fk \in {f \in ForeignKeys : f[3] = t} }

\* the rows that reference row `id` of table t directly or transitively
RECURSIVE Descendants(_, _, _)
Descendants(d, t, id) ==
    LET kids == Children(d, t, id) IN
    kids \cup UNION { Descendants(d, k[1], k[2].id) :
                      k \in {x \in kids : x[1] \in SerialTables} }

\* none of the rows is in the store
Gone(d, rows) == \A x \in rows : x[2] \notin d[x[1]]

Target(s) == KindTable(reqs[s].kind)
Finished(s, kind) == Done(s) /\ reqs[s].kind = kind


(***************************************************************************)
(* Claims checked under Spec.                                              *)
(***************************************************************************)
\* C1: once deleteBoard(b) on an existing board b has run to completion
\* (alone, the store answering every statement), it has returned true and
\* no List, Card, Label, BoardMember, Checklist or ChecklistItem row that
\* referenced b directly or transitively is left.
C1_DeleteBoardLeavesNothing ==
    \A s \in Slots :
        (Finished(s, "board") /\ ~reqs[s].fault
           /\ Exists(reqs[s].pre, "boards", reqs[s].id))
        => /\ reqs[s].result = TRUE
           /\ Gone(db, { x \in Descendants(reqs[s].pre, "boards", reqs[s].id) :
                         x[1] \in {"lists", "cards", "labels", "boardMembers",
                                   "checklists", "checklistItems"} })

\* C6: when a statement of a cascading delete raises, the method returns
\* false to the route instead of throwing, and every row the statements
\* before it deleted stays deleted.
C6_FailureKeepsPartialDeletes ==
    \A s \in Slots :
        (Done(s) /\ reqs[s].raised)
        => /\ reqs[s].result = FALSE
           /\ reqs[s].status # DeleteResponse("throw")
           /\ Gone(db, reqs[s].removed)

\* C6 witness: deleteCard failed after deleting the card's comment; the
\* comment is gone and the Card row is still there.
C6_Witness ==
    \E s \in Slots :
        /\ Finished(s, "card") /\ reqs[s].raised
        /\ Exists(db, "cards", reqs[s].id)
        /\ \E x \in reqs[s].removed :
              x[1] = "comments" /\ x[2].cardId = reqs[s].id

\* C7: a DELETE whose cascade met a store error is answered 500, never the
\* 404 of a target that does not exist.
C7_StoreErrorAnswered500 ==
    \A s \in Slots :
        (Done(s) /\ reqs[s].raised) => reqs[s].status = 500

\* C9: deleteCard run alone returns true exactly when the Card row existed
\* and was removed; on an existing card (the store answering every
\* statement) it returns true and leaves no CardLabel, CardMember, Comment,
\* Checklist or ChecklistItem of the card.
C9_DeleteCardRemovesCard ==
    \A s \in Slots :
        Finished(s, "card") =>
            LET existed == Exists(reqs[s].pre, "cards", reqs[s].id)
                removed == existed /\ ~Exists(db, "cards", reqs[s].id)
            IN /\ reqs[s].result = removed
               /\ (existed /\ ~reqs[s].fault) =>
                     /\ reqs[s].result = TRUE
                     /\ Gone(db, Descendants(reqs[s].pre, "cards", reqs[s].id))

\* C9 witness: deleteCard returned true for a card that had a comment and
\* a checklist with an item.
C9_Witness ==
    \E s \in Slots :
        /\ Finished(s, "card") /\ reqs[s].result
        /\ LET sub == Descendants(reqs[s].pre, "cards", reqs[s].id) IN
           /\ \E x \in sub : x[1] = "comments"
           /\ \E x \in sub : x[1] = "checklistItems"

\* C10: deleteList run alone (the store answering every statement) returns
\* true exactly when the List row existed, and then no card of the list and
\* no row beneath one is left, nor the List row.
C10_DeleteListRemovesSubtree ==
    \A s \in Slots :
        (Finished(s, "list") /\ ~reqs[s].fault) =>
            LET existed == Exists(reqs[s].pre, "lists", reqs[s].id) IN
            /\ reqs[s].result = existed
            /\ ~Exists(db, "lists", reqs[s].id)
            /\ Gone(db, Descendants(reqs[s].pre, "lists", reqs[s].id))

\* C10 witness: deleteList returned true for a list holding a card with a
\* comment and a checklist.
C10_Witness ==
    \E s \in Slots :
        /\ Finished(s, "list") /\ reqs[s].result
        /\ LET sub == Descendants(reqs[s].pre, "lists", reqs[s].id) IN
           /\ \E x \in sub : x[1] = "comments"
           /\ \E x \in sub : x[1] = "checklists"


(***************************************************************************)
(* Claims checked under SpecAccess.                                        *)
(***************************************************************************)
GlobalAdmin(d, u) == \E x \in d.users : x.id = u /\ x.role = "admin"

BoardRow(d, id) == CHOOSE b \in d.boards : b.id = id

\* the board a board, list or card belongs to
EnclosingBoard(d, kind, id) ==
    CASE kind = "board" -> id
      [] kind = "list" -> (CHOOSE l \in d.lists : l.id = id).boardId
      [] kind = "card" ->
            LET c == CHOOSE x \in d.cards : x.id = id
            IN (CHOOSE l \in d.lists : l.id = c.listId).boardId

\* administrator, the board's owner, or a member of the board
MayMutate(d, u, boardId) ==
    /\ u # NULL
    /\ \/ GlobalAdmin(d, u)
       \/ BoardRow(d, boardId).userId = u
       \/ \E m \in d.boardMembers : m.boardId = boardId /\ m.userId = u

\* who may read a board: as MayMutate, and anybody when it has no owner
MayRead(d, u, boardId) ==
    IF u = NULL THEN BoardRow(d, boardId).userId = NULL
    ELSE MayMutate(d, u, boardId)

BodyIds(body) == {body[i].id : i \in 1..Len(body)}

NoDuplicates(body) ==
    \A i, j \in 1..Len(body) : body[i].id = body[j].id => i = j

\* C2: a DELETE of an existing board, list or card by a caller who is not
\* administrator, owner or member of the enclosing board is answered 403
\* and leaves the store as it was.
C2_DeleteOnlyByThoseAllowed ==
    \A s \in Slots :
        (/\ Done(s)
         /\ reqs[s].kind \in {"board", "list", "card"}
         /\ Exists(reqs[s].pre, Target(s), reqs[s].id)
         /\ ~MayMutate(reqs[s].pre, reqs[s].actor,
                       EnclosingBoard(reqs[s].pre, reqs[s].kind, reqs[s].id)))
        => /\ reqs[s].status = 403
           /\ db = reqs[s].pre

\* C3: the listing GET /api/boards sends to an anonymous caller holds
\* exactly the boards whose userId is null.
C3_AnonymousListingOwnerless ==
    (resp.route = "GET /api/boards" /\ resp.actor = NULL)
    => BodyIds(resp.body) = Ids({b \in db.boards : b.userId = NULL})

\* C4: GET /api/boards/:id of an existing board answers 200 exactly when
\* the caller is an administrator, the board's owner or a member of it,
\* or, for an anonymous caller, when the board has no owner; every other
\* caller is answered 403; the store answering its queries, no request
\* is answered 500.
C4_ReadAccessIffAllowed ==
    (resp.route = "GET /api/boards/:id" /\ Exists(db, "boards", resp.id))
    => /\ resp.status \in {200, 403}
       /\ resp.status = 200 <=> MayRead(db, resp.actor, resp.id)
       /\ resp.status = 200 => BodyIds(resp.body) = {resp.id}

\* C4 witness: a member who is neither administrator nor owner was let in.
C4_Witness ==
    /\ resp.route = "GET /api/boards/:id"
    /\ resp.status = 200
    /\ resp.actor # NULL
    /\ ~GlobalAdmin(db, resp.actor)
    /\ Exists(db, "boards", resp.id)
    /\ BoardRow(db, resp.id).userId # resp.actor

\* C8: the listing GET /api/boards sends to an administrator holds every
\* board; the one it sends to any other user holds exactly the boards the
\* user owns and the boards the user is a member of; no board is listed
\* twice.
C8_ListingOwnedAndMemberOnce ==
    (resp.route = "GET /api/boards" /\ resp.actor # NULL)
    => /\ NoDuplicates(resp.body)
       /\ BodyIds(resp.body) =
             IF GlobalAdmin(db, resp.actor) THEN Ids(db.boards)
             ELSE Ids({b \in db.boards :
                          \/ b.userId = resp.actor
                          \/ \E m \in db.boardMembers :
                                m.boardId = b.id /\ m.userId = resp.actor})

\* C8 witness: the listing of a user who owns a board and also has a
\* membership row for it, while another user's board is in the store.
C8_Witness ==
    /\ resp.route = "GET /api/boards"
    /\ resp.actor # NULL
    /\ ~GlobalAdmin(db, resp.actor)
    /\ \E b \in db.boards :
          /\ b.userId = resp.actor
          /\ \E m \in db.boardMembers :
                m.boardId = b.id /\ m.userId = resp.actor
    /\ \E b \in db.boards : b.id \notin BodyIds(resp.body)


(***************************************************************************)
(* Claims checked under SpecConc.                                          *)
(***************************************************************************)
\* the references the claim lists, as <<child table, column, parent table>>
ParentOf ==
    { <<"lists", "boardId", "boards">>,
      <<"cards", "listId", "lists">>,
      <<"checklists", "cardId", "cards">>,
      <<"checklistItems", "checklistId", "checklists">>,
      <<"comments", "cardId", "cards">>,
      <<"cardLabels", "cardId", "cards">>,
      <<"cardMembers", "cardId", "cards">> }

\* C5: in every reachable state, however creates, updates and deletes
\* interleave, every List references an existing Board, every Card an
\* existing List, every Checklist an existing Card, every ChecklistItem an
\* existing Checklist, and every Comment, CardLabel and CardMember an
\* existing Card.
C5_NoOrphans ==
    \A ref \in ParentOf :
        \A c \in db[ref[1]] : Exists(db, ref[3], c[ref[2]])

\* C5 witness: a comment was posted on a card while deleteCard was between
\* its delete of the card's comments and its delete of the Card row; the
\* store refused the latter, and the card and the comment are both there.
C5_Witness ==
    \E s \in Slots :
        /\ Finished(s, "card") /\ reqs[s].raised
        /\ Exists(db, "cards", reqs[s].id)
        /\ \E c \in db.comments :
              c.cardId = reqs[s].id /\ c \notin reqs[s].pre.comments


(***************************************************************************)
(* More claims checked under Spec.                                         *)
(***************************************************************************)
\* C11: in a cascade running alone (the store answering every statement),
\* no statement tries to delete a row that a stored row still references:
\* no statement is refused by the store.
C11_NoDeleteOfReferencedRow ==
    \A s \in Slots :
        (Done(s) /\ ~reqs[s].fault) => ~reqs[s].raised

\* C15: deleteCard(id) for an id that matches no Card row returns false and
\* leaves every table as it was.
C15_DeleteMissingCardNoMutation ==
    \A s \in Slots :
        (Finished(s, "card") /\ ~Exists(reqs[s].pre, "cards", reqs[s].id))
        => /\ reqs[s].result = FALSE
           /\ reqs[s].removed = {}
           /\ db = reqs[s].pre

\* C15 witness: deleteCard ran to its last statement for an id that matches
\* no card, while the store holds a card with a comment on a list.
C15_Witness ==
    \E s \in Slots :
        /\ Finished(s, "card") /\ ~reqs[s].raised
        /\ ~Exists(reqs[s].pre, "cards", reqs[s].id)
        /\ \E c \in db.cards : \E m \in db.comments : m.cardId = c.id


(***************************************************************************)
(* Claims checked under SpecCardList.                                      *)
(***************************************************************************)
\* deleteCard in slot s and deleteList in slot t, of the list of that card
CardWithItsList(s, t) ==
    /\ Finished(s, "card") /\ Finished(t, "list")
    /\ Exists(reqs[t].pre, "lists", reqs[t].id)
    /\ \E c \in reqs[s].pre.cards \cup reqs[t].pre.cards :
          c.id = reqs[s].id /\ c.listId = reqs[t].id

\* C12: when deleteCard(c) and deleteList of c's list run with their
\* statements interleaved in any order, no statement raises (a delete that
\* matches no row is not an error), deleteList returns true, and neither
\* the list nor any row that was beneath it is left.
C12_CardAndListDeletesBenign ==
    \A s, t \in Slots :
        CardWithItsList(s, t)
        => /\ ~reqs[s].raised /\ ~reqs[t].raised
           /\ reqs[t].result = TRUE
           /\ ~Exists(db, "lists", reqs[t].id)
           /\ Gone(db, Descendants(reqs[s].pre, "lists", reqs[t].id))
           /\ Gone(db, Descendants(reqs[t].pre, "lists", reqs[t].id))

\* C12 witness: deleteCard deleted the card's comment, deleteList deleted
\* the Card row, and deleteCard's last statement found no row.
C12_Witness ==
    \E s, t \in Slots :
        /\ CardWithItsList(s, t)
        /\ reqs[s].result = FALSE /\ ~reqs[s].raised
        /\ \E x \in reqs[s].removed : x[1] = "comments"
        /\ \E x \in reqs[t].removed : x[1] = "cards" /\ x[2].id = reqs[s].id


(***************************************************************************)
(* Claims checked under SpecTwoBoards.                                     *)
(***************************************************************************)
\* C13: two deleteBoard calls on two different existing boards, their
\* statements interleaved in any order, both return true and leave what
\* running them one after the other leaves: neither board and no row that
\* was beneath either.
C13_TwoBoardDeletesIndependent ==
    \A s, t \in Slots :
        (/\ Finished(s, "board") /\ Finished(t, "board")
         /\ reqs[s].id # reqs[t].id
         /\ Exists(reqs[s].pre, "boards", reqs[s].id)
         /\ Exists(reqs[t].pre, "boards", reqs[t].id))
        => /\ reqs[s].result = TRUE
           /\ ~Exists(db, "boards", reqs[s].id)
           /\ Gone(db, Descendants(reqs[s].pre, "boards", reqs[s].id))

\* C14: of two deleteBoard calls for the same id, the second started after
\* the first returned, the first (on an existing board) returns true and
\* the second returns false and changes nothing.
C14_SecondDeleteBoardReturnsFalse ==
    \A s, t \in Slots :
        (/\ Finished(s, "board") /\ Finished(t, "board")
         /\ reqs[s].id = reqs[t].id
         /\ s \in reqs[t].after
         /\ Exists(reqs[s].pre, "boards", reqs[s].id))
        => /\ reqs[s].result = TRUE
           /\ reqs[t].result = FALSE
           /\ reqs[t].removed = {}
           /\ db = reqs[t].pre


(***************************************************************************)
(* Claims checked under SpecMembers.                                       *)
(***************************************************************************)
MemberWrites ==
    {"POST /api/board-members",
     "PATCH /api/boards/:boardId/members/:userId",
     "DELETE /api/boards/:boardId/members/:userId"}

\* administrator or the board's owner; for a removal also the member
MayChangeMember(d, route, actor, boardId, userId) ==
    /\ actor # NULL
    /\ \/ GlobalAdmin(d, actor)
       \/ BoardRow(d, boardId).userId = actor
       \/ (route = "DELETE /api/boards/:boardId/members/:userId"
             /\ actor = userId)

\* the answer to a request on the members of an existing board
MemberRequestGated(d, r, d2) ==
    LET may == MayChangeMember(d, r.route, r.actor, r.id, r.userId) IN
    /\ d2.boardMembers # d.boardMembers => may
    /\ ~may => (r.status = 403 /\ d2 = d)

\* C16: a request that adds a member to an existing board, changes a
\* member's role or removes a member changes the BoardMember rows only
\* when the caller is an administrator or the board's owner (or, for a
\* removal, the member removed); every other caller is answered 403 and
\* the store is unchanged.
C16_MemberChangesGated ==
    [][(resp'.route \in MemberWrites /\ resp'.status # 400
          /\ Exists(db, "boards", resp'.id))
       => MemberRequestGated(db, resp', db')]_vars

\* C16 witness: a logged-in user who is neither administrator nor owner of
\* the board asked to add a member and was answered 403, after the owner
\* had added a member.
C16_Witness ==
    /\ resp.route = "POST /api/board-members"
    /\ resp.status = 403
    /\ resp.actor # NULL
    /\ Exists(db, "boards", resp.id)
    /\ BoardRow(db, resp.id).userId # NULL
    /\ \E m \in db.boardMembers : m.boardId = resp.id

\* C19: the members listing of a board reports the board's creator with
\* the board role "owner".
C19_CreatorReportedOwner ==
    (/\ resp.route = "GET /api/boards/:boardId/members"
     /\ Exists(db, "boards", resp.id)
     /\ BoardRow(db, resp.id).userId # NULL)
    => \E i \in 1..Len(resp.body) :
          /\ resp.body[i].id = BoardRow(db, resp.id).userId
          /\ resp.body[i].boardRole = "owner"

\* C20: the role of every BoardMember row is owner, editor or viewer.
C20_MemberRoleInEnum ==
    \A m \in db.boardMembers : m.role \in BoardRoles


(***************************************************************************)
(* Claims checked under SpecUsers.                                         *)
(***************************************************************************)
StoredRoles(d) == {<<u.id, u.role>> : u \in d.users}

\* C17: a step that deletes a user row or changes a stored global role is
\* the step of a request whose caller's stored role is admin.
C17_UserChangesOnlyByAdmin ==
    [][StoredRoles(db') # StoredRoles(db)
       => \/ /\ resp'.route = "PATCH /api/users/:id"
             /\ GlobalAdmin(db, resp'.actor)
          \/ \E s \in Slots :
                /\ Running(s) /\ reqs[s].kind = "user"
                /\ reqs'[s] # reqs[s]
                /\ GlobalAdmin(reqs[s].pre, reqs[s].actor)]_vars

\* C18: DELETE /api/users/:id with the caller's own id never reaches
\* deleteUser: it is answered 400 or 403 and the store is left as it was.
C18_SelfDeletionRejected ==
    [][/\ \A s \in Slots :
             (reqs'[s].st # "idle" /\ reqs'[s].kind = "user")
             => reqs'[s].actor # reqs'[s].id
       /\ (resp'.route = "DELETE /api/users/:id" /\ resp'.actor = resp'.id)
          => (resp'.status \in {400, 403} /\ db' = db)]_vars

\* C18 witness: an administrator who owns a board asked to delete their
\* own account and was answered 400, while another administrator's request
\* to delete a user would go through.
C18_Witness ==
    /\ resp.route = "DELETE /api/users/:id"
    /\ resp.actor = resp.id
    /\ resp.status = 400
    /\ GlobalAdmin(db, resp.actor)
    /\ \E b \in db.boards : b.userId = resp.actor



(***************************************************************************)
(* Claims about what one cascading delete removes (checked under Spec).    *)
(***************************************************************************)
\* the store d without the rows `rows` (pairs <<table, row>>)
Without(d, rows) ==
    [t \in Tables |-> d[t] \ {x[2] : x \in {y \in rows : y[1] = t}}]

\* the row `id` of table t, as a set of pairs <<table, row>>
TargetRows(d, t, id) == {<<t, r>> : r \in {x \in d[t] : x.id = id}}

\* C21: deleteList on an existing list that holds no card (run alone, the
\* store answering every statement) deletes exactly one row, the List row,
\* leaves every other row of the store as it was, and returns true.
C21_DeleteEmptyListOnlyListRow ==
    \A s \in Slots :
        (Finished(s, "list") /\ ~reqs[s].fault
           /\ Exists(reqs[s].pre, "lists", reqs[s].id)
           /\ SelectWhere(reqs[s].pre, "cards", "listId", reqs[s].id) = {})
        => /\ reqs[s].result = TRUE
           /\ reqs[s].removed = TargetRows(reqs[s].pre, "lists", reqs[s].id)
           /\ Cardinality(reqs[s].removed) = 1
           /\ db = Without(reqs[s].pre, reqs[s].removed)

\* C21 witness: deleteList returned true for a list without cards while
\* another list of the same board, holding a card, was in the store.
C21_Witness ==
    \E s \in Slots :
        /\ Finished(s, "list") /\ reqs[s].result
        /\ SelectWhere(reqs[s].pre, "cards", "listId", reqs[s].id) = {}
        /\ \E l \in reqs[s].pre.lists : \E m \in db.lists :
              /\ l.id = reqs[s].id /\ m.id # l.id /\ m.boardId = l.boardId
              /\ SelectWhere(db, "cards", "listId", m.id) # {}

\* C22: deleteChecklist(id) run alone removes the Checklist row only after
\* every ChecklistItem of the checklist; it returns true exactly when a
\* Checklist row with that id existed and was removed, which it is whenever
\* the store answers every statement, and then no item references it.
C22_DeleteChecklistItemsFirst ==
    \A s \in Slots :
        reqs[s].kind = "checklist" =>
            LET existed == Exists(reqs[s].pre, "checklists", reqs[s].id)
                removed == existed /\ ~Exists(db, "checklists", reqs[s].id)
                items == SelectWhere(reqs[s].pre, "checklistItems",
                                     "checklistId", reqs[s].id)
            IN /\ removed => items \cap db.checklistItems = {}
               /\ Done(s) => reqs[s].result = removed
               /\ (Done(s) /\ existed /\ ~reqs[s].fault) =>
                     /\ reqs[s].result = TRUE
                     /\ SelectWhere(db, "checklistItems", "checklistId",
                                    reqs[s].id) = {}

\* C22 witness: deleteChecklist returned true for a checklist with an item.
C22_Witness ==
    \E s \in Slots :
        /\ Finished(s, "checklist") /\ reqs[s].result
        /\ SelectWhere(reqs[s].pre, "checklistItems", "checklistId",
                       reqs[s].id) # {}

\* C30: deleteCard, deleteList and deleteBoard (run alone) delete only the
\* target row and rows that referenced it directly or transitively; every
\* other row, and every User row, is as it was before the call, whether
\* the call returns true or false.
C30_DeleteStaysInSubtree ==
    \A s \in Slots :
        (Done(s) /\ reqs[s].kind \in {"card", "list", "board"}) =>
            /\ reqs[s].removed \subseteq
                   (Descendants(reqs[s].pre, Target(s), reqs[s].id)
                    \cup TargetRows(reqs[s].pre, Target(s), reqs[s].id))
            /\ db = Without(reqs[s].pre, reqs[s].removed)
            /\ db.users = reqs[s].pre.users

\* C30 witness: deleteBoard returned while a second board with a label and
\* a list was in the store, and it had removed a list of its own.
C30_Witness ==
    \E s \in Slots :
        /\ Finished(s, "board")
        /\ \E x \in reqs[s].removed : x[1] = "lists"
        /\ \E b \in db.boards :
              /\ b.id # reqs[s].id
              /\ SelectWhere(db, "labels", "boardId", b.id) # {}
              /\ SelectWhere(db, "lists", "boardId", b.id) # {}



(***************************************************************************)
(* Claims about deleteUser (checked under SpecUsers).                      *)
(***************************************************************************)
\* C26: deleteUser(id) on an existing user either removes the user row
\* together with every row that referenced it and returns true, or returns
\* false with the store exactly as it was before the call.
C26_DeleteUserAllOrNothing ==
    \A s \in Slots :
        (Finished(s, "user") /\ Exists(reqs[s].pre, "users", reqs[s].id))
        => \/ /\ reqs[s].result = TRUE
              /\ ~Exists(db, "users", reqs[s].id)
              /\ Gone(db, Children(reqs[s].pre, "users", reqs[s].id))
           \/ /\ reqs[s].result = FALSE
              /\ db = reqs[s].pre



(***************************************************************************)
(* Claims about a delete with other requests in between (SpecConc).        *)
(***************************************************************************)
\* C27: deleteList(l) on an existing list, with requests that create a
\* card in l or move one into it and attach a comment or checklist handled
\* between its statements, still returns true and leaves no card of l.
C27_DeleteListDespiteNewCards ==
    \A s \in Slots :
        (Finished(s, "list") /\ Exists(reqs[s].pre, "lists", reqs[s].id))
        => /\ reqs[s].result = TRUE
           /\ SelectWhere(db, "cards", "listId", reqs[s].id) = {}



(***************************************************************************)
(* Claims about who may read a board (checked under SpecAccess).           *)
(***************************************************************************)
\* C29: a board that GET /api/boards/:id sends to an anonymous caller is
\* also sent to every authenticated user.
C29_AnonymousReadableByAll ==
    \A b \in db.boards :
        BoardReadStatus(db, NULL, b.id) = 200
        => \A u \in Ids(db.users) : BoardReadStatus(db, u, b.id) = 200



(***************************************************************************)
(* Claims about the order column (checked under SpecOrder).                *)
(***************************************************************************)
AppendRoutes == {"POST /api/lists", "POST /api/cards"}

\* the rows that had the parent of `row` before the request
SiblingsBefore(d, route, row) ==
    IF route = "POST /api/lists"
    THEN SelectWhere(d, "lists", "boardId", row.boardId)
    ELSE SelectWhere(d, "cards", "listId", row.listId)

\* every arrangement getLists or getCards may return ends with `row`
SortsLast(d, route, row) ==
    \A arr \in (IF route = "POST /api/lists"
                 THEN getLists(d, row.boardId) ELSE getCards(d, row.listId)) :
        arr[Len(arr)] = row

\* C23: a list (card) created by a request without `order`, handled with no
\* other request in between, is stored with order 1 + the largest order
\* among the lists of its board (cards of its list), 0 when there are
\* none, and getLists (getCards) returns it after every other sibling.
C23_AppendOrderIsMaxPlusOne ==
    [][(resp'.route \in AppendRoutes /\ resp'.status = 201
          /\ "order" \notin DOMAIN resp'.sent)
       => LET row == resp'.body[1]
              siblings == SiblingsBefore(db, resp'.route, row)
          IN /\ row.order = IF siblings = {} THEN 0
                            ELSE 1 + Max({r.order : r \in siblings})
             /\ \A r \in siblings : r.order < row.order
             /\ SortsLast(db', resp'.route, row)]_vars

\* C23 witness: a list was appended to a board whose lists had orders
\* other than 0..n-1, and took the order after the largest of them.
C23_Witness ==
    /\ resp.route = "POST /api/lists" /\ resp.status = 201
    /\ "order" \notin DOMAIN resp.sent
    /\ LET row == resp.body[1]
           others == SelectWhere(db, "lists", "boardId", row.boardId) \ {row}
       IN /\ Cardinality(others) = 2
          /\ \E r \in others : r.order < 0
          /\ row.order = 1



(***************************************************************************)
(* Claims about reads (checked under SpecReads).                           *)
(***************************************************************************)
\* the dashboards and the kind each handler is of
Dashboards ==
    { [segment |-> OverdueDashboard, kind |-> "overdue",
       name |-> "GET /api/cards/overdue-dashboard"],
      [segment |-> ChecklistsDashboard, kind |-> "checklists",
       name |-> "GET /api/cards/checklists-dashboard"] }

\* C25: GET /api/cards/overdue-dashboard (and checklists-dashboard) by a
\* logged-in user is answered by its dashboard handler, with the overdue
\* (checklist) cards of the boards the user can access, and by no other
\* route.
C25_DashboardServedByItsHandler ==
    \A dash \in Dashboards :
        ("path" \in DOMAIN resp /\ resp.path = dash.segment
           /\ resp.actor # NULL)
        => /\ resp.route = dash.name
           /\ resp.status = 200
           /\ resp.body \in DashboardOfBoards(db, dash.kind,
                                 getBoardsUserCanAccess(db, resp.actor))

\* the boards GET /api/boards/:id refuses to the caller
Denied(d, actor) ==
    {b.id : b \in {x \in d.boards : BoardReadStatus(d, actor, x.id) = 403}}

\* the store without the lists, cards, labels and members of those boards
Redact(d, actor) ==
    LET lists == {l \in d.lists : l.boardId \in Denied(d, actor)} IN
    [d EXCEPT
        !.lists = @ \ lists,
        !.cards = {c \in @ : c.listId \notin Ids(lists)},
        !.labels = {l \in @ : l.boardId \notin Denied(d, actor)},
        !.boardMembers = {m \in @ : m.boardId \notin Denied(d, actor)}]

\* C28: what the routes for a board's lists, a list's cards, a board's
\* labels and a board's members send to a logged-in user does not depend on
\* the contents of boards GET /api/boards/:id refuses to that user: the
\* store without those contents gives the same answer.
C28_DeniedBoardsContentsHidden ==
    (resp.route \in ReadRoutes /\ resp.actor # NULL)
    => resp.body \in ReadBodies(Redact(db, resp.actor), resp.route, resp.id)



(***************************************************************************)
(* Claims about the seeder (checked under SpecSeeder).                     *)
(***************************************************************************)
\* C24: once runSeeder has returned, a user whose stored role is admin
\* exists; the account it creates on an empty table has stored role admin.
C24_SeederLeavesAnAdmin ==
    resp.route = "runSeeder"
    => /\ \E u \in db.users : u.role = "admin"
       /\ resp.returned => resp.body[1].role = "admin"

=============================================================================
